---- MODULE Spec2Model ----
(***************************************************************************)
(* Price-time-priority limit order book (Pegasus): Order, Limit and        *)
(* OrderBook, one book of one symbol driven by a single caller.            *)
(*                                                                         *)
(* Prices and quantities are doubles in the source; the model uses small   *)
(* integers (exact in a double), so arithmetic and comparisons agree.      *)
(* Order objects live in the table `orders`; a handle is an index into it  *)
(* (0 is the null pointer).  The side maps are functions whose DOMAIN is   *)
(* the set of keys of the std::map.                                        *)
(***************************************************************************)
EXTENDS Integers, Sequences, FiniteSets, TLC

\* ---------------------------------------------------------------- bounds
\* order objects a run constructs and has the book accept
MaxOrders == 3
MaxPrice == 2
MaxQty == 2
\* calls of a run that a well-behaved caller would not make: an order of
\* non-positive quantity, a STOP_LIMIT order (reserved type), an id that
\* was used before, an order object that was submitted before, or null
MaxIrregular == 1
\* the dispatcher: symbols, calls of processOrder and cancelOrder, and calls
\* of shutdown (the destructor's included)
MaxSymbols == 1
MaxCalls == 2
MaxShutdowns == 2
\* Order::fillQuantity: the threads and the sum of the amounts they fill
MaxFillers == 2
MaxFilled == 3
\* Limit: the calls of addOrder and removeOrder the writer makes
MaxLimitOps == 3
\* BenchOrderBookManager: the symbols and the calls made
MaxBenchSymbols == 2
MaxBenchCalls == 3

Prices == 1..MaxPrice
\* original quantities a caller may pass: the constructor validates nothing
Qtys == (0 - 1)..MaxQty
Sides == {"BUY", "SELL"}
Types == {"MARKET", "LIMIT", "STOP_LIMIT"}

VARIABLES
    orders,     \* the Order objects the run constructed, by handle
    bids,       \* m_bids: price -> Limit
    asks,       \* m_asks: price -> Limit
    m_orders,   \* the id index: id -> handle
    status,     \* "ok", or how the last call failed to return
    irregular   \* number of irregular calls made so far

VARIABLES
    m_running,        \* the manager's running flag
    m_orderBooks,     \* symbol -> the OrderBook created for it
    m_symbolThreads,  \* symbol -> the std::thread of its worker
    m_orderQueues,    \* symbol -> the queue of OrderActions
    m_queueMutexes,   \* the symbols that have a queue mutex
    m_queueCondVars,  \* the symbols that have a condition variable
    workers,          \* the threads running symbolThreadFunction
    calls,            \* the calls of processOrder and cancelOrder
    shutdowns,        \* the calls of shutdown
    enqueued,         \* symbol -> every OrderAction pushed, in order
    applied,          \* symbol -> the requests applied to its book, in order
    called            \* symbol -> the requests whose fills were called back

\* objects used by several threads at once, each on its own
VARIABLES
    m_filledQty,          \* Order: the cached filled quantity
    m_filledQtyAtomic,    \* Order: the atomic filled quantity
    fillers,              \* the threads calling fillQuantity on the order
    limit_orders,         \* Limit: m_orders, the FIFO list
    m_totalVolumeAtomic,  \* Limit: the atomic total volume
    writer,               \* the thread calling Limit::addOrder/removeOrder
    reader,               \* a thread reading the Limit
    bench_books,          \* BenchOrderBookManager: keys of m_orderBooks
    bench_mutex,          \* BenchOrderBookManager: owner of m_mutex, or 0
    bench_calls           \* the threads calling the BenchOrderBookManager

fill_vars == <<m_filledQty, m_filledQtyAtomic, fillers>>

limit_vars == <<limit_orders, m_totalVolumeAtomic, writer, reader>>

bench_vars == <<bench_books, bench_mutex, bench_calls>>

shared_vars == <<m_filledQty, m_filledQtyAtomic, fillers, limit_orders,
                 m_totalVolumeAtomic, writer, reader, bench_books,
                 bench_mutex, bench_calls>>

vars == <<orders, bids, asks, m_orders, status, irregular, m_running,
          m_orderBooks, m_symbolThreads, m_orderQueues, m_queueMutexes,
          m_queueCondVars, workers, calls, shutdowns, enqueued, applied,
          called, shared_vars>>

\* ------------------------------------------------------------ containers
EmptyMap == [k \in {} |-> 0]

MapPut(m, k, v) == [x \in DOMAIN m \cup {k} |-> IF x = k THEN v ELSE m[x]]

MapErase(m, k) == [x \in DOMAIN m \ {k} |-> m[x]]

SetMax(S) == CHOOSE x \in S : \A y \in S : y <= x

SetMin(S) == CHOOSE x \in S : \A y \in S : x <= y

Min(a, b) == IF a < b THEN a ELSE b

\* index of the first occurrence of x in s, 0 when absent (std::find)
FindFirst(s, x) ==
    IF \E i \in 1..Len(s) : s[i] = x
    THEN CHOOSE i \in 1..Len(s) : s[i] = x /\ \A j \in 1..(i - 1) : s[j] # x
    ELSE 0

SeqErase(s, i) == [j \in 1..(Len(s) - 1) |-> IF j < i THEN s[j] ELSE s[j + 1]]

\* ----------------------------------------------------------------- Order
NewOrder(id, side, type, price, quantity) ==
    [id |-> id, side |-> side, type |-> type, price |-> price,
     quantity |-> quantity, filledQty |-> 0, active |-> TRUE]

Remaining(o) == o.quantity - o.filledQty

fillQuantity(o, fillAmount) == [o EXCEPT !.filledQty = o.filledQty + fillAmount]

deactivate(o) == [o EXCEPT !.active = FALSE]

\* ----------------------------------------------------------------- Limit
NewLimit == [fifo |-> <<>>, totalVolume |-> 0]

\* Limit::addOrder with push_front in place of push_back
LimitAddOrder_PushFront(limit, h, o) ==
    [fifo |-> <<h>> \o limit.fifo,
     totalVolume |-> limit.totalVolume + Remaining(o)]

LimitAddOrder(limit, h, o) ==
    [fifo |-> Append(limit.fifo, h),
     totalVolume |-> limit.totalVolume + Remaining(o)]

LimitRemoveOrder(limit, h, o) ==
    LET i == FindFirst(limit.fifo, h) IN
    IF i = 0 THEN limit
    ELSE [fifo |-> SeqErase(limit.fifo, i),
          totalVolume |-> IF Remaining(o) > 0
                          THEN limit.totalVolume - Remaining(o)
                          ELSE limit.totalVolume]

\* ------------------------------------------------------------- OrderBook
\* A book value b is [orders, bids, asks, m_orders]: the operators below are
\* the member functions, threading the book (and the order objects) through.
BookOf(o, bd, ak, ix) == [orders |-> o, bids |-> bd, asks |-> ak, m_orders |-> ix]

SideMap(b, side) == IF side = "BUY" THEN b.bids ELSE b.asks

WithSideMap(b, side, m) ==
    IF side = "BUY" THEN [b EXCEPT !.bids = m] ELSE [b EXCEPT !.asks = m]

\* both maps ordered the other way round: begin() is the worst price
BeginKey_Worst(b, side) ==
    IF side = "BUY" THEN SetMin(DOMAIN b.bids) ELSE SetMax(DOMAIN b.asks)

\* m_bids.begin() is the highest key (std::greater), m_asks.begin() the lowest
BeginKey(b, side) ==
    IF side = "BUY" THEN SetMax(DOMAIN b.bids) ELSE SetMin(DOMAIN b.asks)

\* getBestBid on a bid map ordered the other way round
getBestBid_Lowest(b) == IF DOMAIN b.bids = {} THEN 0 ELSE SetMin(DOMAIN b.bids)

getBestBid(b) == IF DOMAIN b.bids = {} THEN 0 ELSE SetMax(DOMAIN b.bids)

\* std::numeric_limits<double>::max(): above every price
DoubleMax == 1000000

getBestAsk(b) == IF DOMAIN b.asks = {} THEN DoubleMax ELSE SetMin(DOMAIN b.asks)

\* addOrderToBook without the insertion into the id index
addOrderToBook_NoIndex(b, h) ==
    LET o == b.orders[h]
        m == SideMap(b, o.side)
        limit == IF o.price \in DOMAIN m THEN m[o.price] ELSE NewLimit
    IN WithSideMap(b, o.side, MapPut(m, o.price, LimitAddOrder(limit, h, o)))

addOrderToBook(b, h) ==
    LET o == b.orders[h]
        m == SideMap(b, o.side)
        limit == IF o.price \in DOMAIN m THEN m[o.price] ELSE NewLimit
    IN [WithSideMap(b, o.side, MapPut(m, o.price, LimitAddOrder(limit, h, o)))
           EXCEPT !.m_orders = MapPut(b.m_orders, o.id, h)]

\* RemoveFromLimit that keeps a level whose last order it took out
RemoveFromLimit_KeepLevel(b1, h) ==
    LET o == b1.orders[h]
        m == SideMap(b1, o.side)
    IN IF o.price \notin DOMAIN m
       THEN [b |-> b1, ret |-> FALSE, freed |-> FALSE]
       ELSE [b |-> WithSideMap(b1, o.side,
                       MapPut(m, o.price, LimitRemoveOrder(m[o.price], h, o))),
             ret |-> TRUE, freed |-> FALSE]

\* removeOrderFromBook once the id was erased from the index: b1 is the book
\* without the index entry
RemoveFromLimit(b1, h) ==
    LET o == b1.orders[h]
        m == SideMap(b1, o.side)
    IN IF o.price \notin DOMAIN m
       THEN [b |-> b1, ret |-> FALSE, freed |-> FALSE]
       ELSE IF LimitRemoveOrder(m[o.price], h, o).fifo = <<>>
       THEN [b |-> WithSideMap(b1, o.side, MapErase(m, o.price)),
             ret |-> TRUE, freed |-> TRUE]
       ELSE [b |-> WithSideMap(b1, o.side,
                       MapPut(m, o.price, LimitRemoveOrder(m[o.price], h, o))),
             ret |-> TRUE, freed |-> FALSE]

\* [b, ret, freed]: freed is TRUE when the Limit was deleted and its map
\* entry erased
removeOrderFromBook(b, h) ==
    IF b.orders[h].id \notin DOMAIN b.m_orders
    THEN [b |-> b, ret |-> FALSE, freed |-> FALSE]
    ELSE RemoveFromLimit([b EXCEPT !.m_orders = MapErase(b.m_orders, b.orders[h].id)], h)

Opposite(side) == IF side = "BUY" THEN "SELL" ELSE "BUY"

\* a price test that lets a LIMIT taker take every level
Unacceptable_Never(o, levelPrice) == FALSE

\* the price test of a LIMIT taker against the best opposite level
Unacceptable(o, levelPrice) ==
    IF o.side = "BUY" THEN levelPrice > o.price ELSE levelPrice < o.price

SideSign(side) == IF side = "BUY" THEN 1 ELSE 0 - 1

\* The passes of the while loop of matchOrder.  st carries the book (b), the
\* taker's local remainingQty (rem), the fills passed to the callback so
\* far, the number of reads of a deleted Limit so far (ub) and how the loop
\* stands (state): "loop", "full" (orderFullyFilled), "crashed" or "hung".
\*
\* The end of a pass, once the resting order mh was dealt with (rm is what
\* removeOrderFromBook returned, if it was called).  When rm.freed, the Limit
\* was deleted and `it` erased, and limit->empty() reads freed memory: read
\* as "not empty" the pass goes on, read as "empty" erase(it) runs on the
\* erased iterator and the process dies.
PassEnd(st, h, p, crashAt, mh, fillQty, rm) ==
    LET opp == Opposite(st.b.orders[h].side)
        m4 == SideMap(rm.b, opp)
        \* limit->empty() on a live Limit, then erase(it)
        b4 == IF ~rm.freed /\ p \in DOMAIN m4 /\ m4[p].fifo = <<>>
              THEN WithSideMap(rm.b, opp, MapErase(m4, p))
              ELSE rm.b
        ub1 == IF rm.freed THEN st.ub + 1 ELSE st.ub
        rem1 == st.rem - fillQty
        fills1 == Append(st.fills, [price |-> p, qty |-> fillQty,
                                    side |-> SideSign(st.b.orders[h].side),
                                    taker |-> h, maker |-> mh])
    IN [b |-> IF rm.freed /\ ub1 = crashAt THEN rm.b ELSE b4,
        rem |-> rem1,
        fills |-> fills1,
        ub |-> ub1,
        state |-> IF rm.freed /\ ub1 = crashAt THEN "crashed"
                  ELSE IF rem1 <= 0 THEN "full"
                  \* the pass changed nothing: the loop repeats it for ever
                  ELSE IF b4 = st.b /\ rem1 = st.rem THEN "hung"
                  ELSE "loop"]

\* b2 is the book after both orders took the fill
PassRemove(st, h, p, crashAt, mh, fillQty, b2) ==
    IF b2.orders[mh].filledQty >= b2.orders[mh].quantity
    THEN PassEnd(st, h, p, crashAt, mh, fillQty,
                 removeOrderFromBook([b2 EXCEPT !.orders[mh] = deactivate(@)], mh))
    ELSE PassEnd(st, h, p, crashAt, mh, fillQty,
                 [b |-> b2, ret |-> FALSE, freed |-> FALSE])

\* a fill that is booked on the incoming order only
PassFill_TakerOnly(st, h, p, crashAt, mh, fillQty) ==
    PassRemove(st, h, p, crashAt, mh, fillQty,
               [st.b EXCEPT !.orders[h] = fillQuantity(@, fillQty)])

PassFill(st, h, p, crashAt, mh, fillQty) ==
    PassRemove(st, h, p, crashAt, mh, fillQty,
               [st.b EXCEPT !.orders =
                   [[st.b.orders EXCEPT ![h] = fillQuantity(@, fillQty)]
                       EXCEPT ![mh] = fillQuantity(@, fillQty)]])

\* a pass that fills the taker's whole remainder against the front order
MatchStep_TakerRemainder(st, h, p, crashAt) ==
    LET mh == Head(SideMap(st.b, Opposite(st.b.orders[h].side))[p].fifo)
    IN PassFill(st, h, p, crashAt, mh, st.rem)

\* the pass over the best opposite level p, whose FIFO is not empty
MatchStep(st, h, p, crashAt) ==
    LET mh == Head(SideMap(st.b, Opposite(st.b.orders[h].side))[p].fifo)
    IN PassFill(st, h, p, crashAt, mh, Min(st.rem, Remaining(st.b.orders[mh])))

RECURSIVE MatchLoop(_, _, _)
MatchLoop(st, h, crashAt) ==
    LET taker == st.b.orders[h]
        opp == Opposite(taker.side)
        m == SideMap(st.b, opp)
    IN IF st.state # "loop" \/ ~(st.rem > 0) \/ DOMAIN m = {}
       THEN st
       ELSE LET p == BeginKey(st.b, opp) IN
            IF taker.type = "LIMIT" /\ Unacceptable(taker, p)
            THEN st
            ELSE IF m[p].fifo = <<>>
            THEN MatchLoop([st EXCEPT !.b = WithSideMap(st.b, opp, MapErase(m, p))],
                           h, crashAt)
            ELSE MatchLoop(MatchStep(st, h, p, crashAt), h, crashAt)

Result(b, ret, fs, st) == [b |-> b, ret |-> ret, fills |-> fs, status |-> st]

\* matchOrder after its loop
MatchEnd(st, h) ==
    IF st.state \in {"crashed", "hung"}
    THEN Result(st.b, FALSE, st.fills, st.state)
    ELSE IF st.state = "full" \/ st.b.orders[h].filledQty >= st.b.orders[h].quantity
    THEN Result([st.b EXCEPT !.orders[h] = deactivate(@)], TRUE, st.fills, "ok")
    ELSE IF st.b.orders[h].type = "LIMIT"
    THEN Result(addOrderToBook(st.b, h), TRUE, st.fills, "ok")
    ELSE IF st.b.orders[h].type = "MARKET"
    THEN Result([st.b EXCEPT !.orders[h] = deactivate(@)], TRUE, st.fills, "ok")
    ELSE Result(st.b, TRUE, st.fills, "ok")

\* matchOrder(order, fillCallback); h = 0 is the null pointer.  crashAt picks
\* the outcome of the reads of a deleted Limit: 0 = every one reads "not
\* empty", k = the k-th reads "empty".
matchOrder(b, h, crashAt) ==
    IF h = 0 \/ ~b.orders[h].active
    THEN Result(b, FALSE, <<>>, "ok")
    ELSE MatchEnd(MatchLoop([b |-> b, rem |-> Remaining(b.orders[h]),
                             fills |-> <<>>, ub |-> 0, state |-> "loop"],
                            h, crashAt), h)

\* addOrder without the test of the id against the index
addOrder_NoIdCheck(b, h, crashAt) ==
    IF h = 0 \/ ~b.orders[h].active
    THEN Result(b, FALSE, <<>>, "ok")
    ELSE IF b.orders[h].type = "MARKET"
    THEN matchOrder(b, h, crashAt)
    ELSE Result(addOrderToBook(b, h), TRUE, <<>>, "ok")

addOrder(b, h, crashAt) ==
    IF h = 0 \/ ~b.orders[h].active
    THEN Result(b, FALSE, <<>>, "ok")
    ELSE IF b.orders[h].id \in DOMAIN b.m_orders
    THEN Result(b, FALSE, <<>>, "ok")
    ELSE IF b.orders[h].type = "MARKET"
    THEN matchOrder(b, h, crashAt)
    ELSE Result(addOrderToBook(b, h), TRUE, <<>>, "ok")

CancelEnd(rm) == Result(rm.b, rm.ret, <<>>, "ok")

\* cancelOrder that reports success for an id the index does not hold
cancelOrder_AbsentOk(b, orderId) ==
    IF orderId \notin DOMAIN b.m_orders
    THEN Result(b, TRUE, <<>>, "ok")
    ELSE CancelEnd(removeOrderFromBook(
             [b EXCEPT !.orders[b.m_orders[orderId]] = deactivate(@)],
             b.m_orders[orderId]))

cancelOrder(b, orderId) ==
    IF orderId \notin DOMAIN b.m_orders
    THEN Result(b, FALSE, <<>>, "ok")
    ELSE CancelEnd(removeOrderFromBook(
             [b EXCEPT !.orders[b.m_orders[orderId]] = deactivate(@)],
             b.m_orders[orderId]))

\* --------------------------------------------------------------- actions
Book == BookOf(orders, bids, asks, m_orders)

Range(f) == {f[x] : x \in DOMAIN f}

\* the handles some Limit or the id index points to
Referenced(b) ==
    UNION {Range(b.bids[p].fifo) : p \in DOMAIN b.bids}
    \cup UNION {Range(b.asks[p].fifo) : p \in DOMAIN b.asks}
    \cup Range(b.m_orders)

UsedIds == {orders[i].id : i \in 1..Len(orders)}

\* Ids are only ever compared for equality (keys of an unordered_map), so a
\* caller's new id is taken to be the least one not used yet.
IdChoices == 1..(Cardinality(UsedIds) + 1)

\* outcomes of the reads of a deleted Limit within one call: at most one
\* per opposite level
CrashPoints == 0..MaxPrice

\* the orders a caller may construct; a MARKET order carries price 0
OrdersWithIds(ids) ==
    {NewOrder(id, side, type, price, qty) :
        id \in ids, side \in Sides, type \in {"LIMIT", "STOP_LIMIT"},
        price \in Prices, qty \in Qtys}
    \cup {NewOrder(id, side, "MARKET", 0, qty) :
        id \in ids, side \in Sides, qty \in Qtys}

NewOrders == OrdersWithIds(IdChoices)

Irregular(o) ==
    IF o.quantity <= 0 \/ o.type = "STOP_LIMIT" \/ o.id \in UsedIds THEN 1 ELSE 0

\* the book with a newly constructed order o, whose handle is NewHandle
WithNew(o) == [Book EXCEPT !.orders = Append(orders, o)]

NewHandle == Len(orders) + 1

\* An order object the call left as constructed (active, nothing filled,
\* referenced by no Limit and no index entry) is not kept: submitting it
\* again is submitting an equal new order.
Settle(b) ==
    LET n == Len(b.orders) IN
    IF n > 0 /\ n \notin Referenced(b) /\ b.orders[n].active
             /\ b.orders[n].filledQty = 0
    THEN SubSeq(b.orders, 1, n - 1)
    ELSE b.orders

\* the caller's call returns (or fails to) with result r
Returns(r, cost) ==
    /\ orders' = Settle(r.b)
    /\ bids' = r.b.bids
    /\ asks' = r.b.asks
    /\ m_orders' = r.b.m_orders
    /\ status' = r.status
    /\ irregular' = irregular + cost
    /\ UNCHANGED <<m_running, m_orderBooks, m_symbolThreads, m_orderQueues,
                   m_queueMutexes, m_queueCondVars, workers, calls, shutdowns,
                   enqueued, applied, called>>
    /\ UNCHANGED shared_vars

\* book.addOrder(std::make_shared<Order>(...), callback)
AddOrderNew ==
    /\ status = "ok"
    /\ Len(orders) < MaxOrders
    /\ \E o \in NewOrders, c \in CrashPoints :
          /\ irregular + Irregular(o) <= MaxIrregular
          /\ Returns(addOrder(WithNew(o), NewHandle, c), Irregular(o))

\* book.addOrder(order, callback) with an order object submitted before, or
\* with the null pointer (h = 0)
AddOrderAgain ==
    /\ status = "ok"
    /\ irregular < MaxIrregular
    /\ \E h \in 0..Len(orders), c \in CrashPoints :
          Returns(addOrder(Book, h, c), 1)

\* book.matchOrder(std::make_shared<Order>(...), callback)
MatchOrderNew ==
    /\ status = "ok"
    /\ Len(orders) < MaxOrders
    /\ \E o \in NewOrders, c \in CrashPoints :
          /\ irregular + Irregular(o) <= MaxIrregular
          /\ Returns(matchOrder(WithNew(o), NewHandle, c), Irregular(o))

\* book.matchOrder(order, callback) with an order object submitted before,
\* or with the null pointer
MatchOrderAgain ==
    /\ status = "ok"
    /\ irregular < MaxIrregular
    /\ \E h \in 0..Len(orders), c \in CrashPoints :
          Returns(matchOrder(Book, h, c), 1)

\* book.cancelOrder(orderId)
CancelOrder ==
    /\ status = "ok"
    /\ \E id \in IdChoices :
          Returns(cancelOrder(Book, id), 0)

\* ------------------------------------------------------ OrderBookManager
\* The dispatcher: producer threads call processOrder and cancelOrder, one
\* worker thread per symbol runs symbolThreadFunction, and shutdown may be
\* called from several threads.  Each step is one critical section or one
\* access between two of them.  The book of a symbol is represented by the
\* sequence of requests applied to it.  A data race on one of the maps and
\* a read through a dangling pointer either go unnoticed or end the
\* process; a null dereference and std::terminate end it.

Symbols == 1..MaxSymbols

\* the argument of processOrder: a null pointer, or an order with its
\* symbol and original quantity (the dispatcher reads only the symbol)
NullOrder == [null |-> TRUE, symbol |-> 0, quantity |-> 0]

OrderArgs ==
    {NullOrder}
    \cup {[null |-> FALSE, symbol |-> s, quantity |-> q] :
             s \in Symbols, q \in 0..1}

OrderAction(type, call) == [type |-> type, call |-> call]

NoAction == OrderAction("NONE", 0)

ShutdownAction == OrderAction("SHUTDOWN", 0)

\* std::queue::push on a mutant queue that hands out the newest first
QueuePush_Front(q, a) == <<a>> \o q

\* std::queue::push
QueuePush(q, a) == Append(q, a)

\* m_orderQueues[symbol]: operator[] creates the queue on first access
QueueOf(symbol) ==
    IF symbol \in DOMAIN m_orderQueues THEN m_orderQueues[symbol] ELSE <<>>

\* a call of shutdown has returned
ShutdownReturned == \E s \in 1..Len(shutdowns) : shutdowns[s].pc = "returned"

\* a call; `late` records that it was made after shutdown had returned
NewCall(op, order, symbol, pc, ret) ==
    [op |-> op, order |-> order, symbol |-> symbol, pc |-> pc, ret |-> ret,
     late |-> ShutdownReturned]

NewWorker(symbol) ==
    [symbol |-> symbol, pc |-> "start", running |-> TRUE, action |-> NoAction]

NewShutdown ==
    [pc |-> "copy", symbols |-> {}, todo |-> {}, symbol |-> 0, threadPtr |-> 0]

maps == <<m_orderBooks, m_symbolThreads, m_orderQueues, m_queueMutexes,
          m_queueCondVars>>

logs == <<enqueued, applied, called>>

book_vars == <<orders, bids, asks, m_orders, irregular>>

\* what the dispatcher's threads do not touch
rest_vars == <<book_vars, shared_vars>>

mgr_vars == <<m_running, maps, workers, calls, shutdowns, logs>>

\* the process dies: a segmentation fault or std::terminate
Dies ==
    /\ status' = "crashed"
    /\ UNCHANGED <<rest_vars, mgr_vars>>

\* --- processOrder
\* the running check never made
RunningCheck_Skipped(running) == TRUE

\* if (!m_running) return false;
RunningCheck(running) == running

ProcessOrderBegin ==
    /\ status = "ok"
    /\ Len(calls) < MaxCalls
    /\ \E order \in OrderArgs :
          IF ~RunningCheck(m_running)
          THEN /\ calls' = Append(calls,
                       NewCall("ADD", order, order.symbol, "done", "false"))
               /\ status' = status
          ELSE IF order.null
          THEN /\ calls' = Append(calls,
                       NewCall("ADD", order, order.symbol, "getSymbol", "none"))
               /\ status' = "crashed"
          ELSE /\ calls' = Append(calls,
                       NewCall("ADD", order, order.symbol, "create", "none"))
               /\ status' = status
    /\ UNCHANGED <<rest_vars, m_running, maps, workers, shutdowns, logs>>

\* a symbol's structures created whether or not it has them
NeedsCreate_Always(threads, symbol) == TRUE

\* m_symbolThreads.find(symbol) == m_symbolThreads.end()
NeedsCreate(threads, symbol) == symbol \notin DOMAIN threads

ProcessOrderCreate ==
    /\ status = "ok"
    /\ \E c \in 1..Len(calls) :
          /\ calls[c].op = "ADD" /\ calls[c].pc = "create"
          /\ LET symbol == calls[c].symbol
                 w == Len(workers) + 1
             IN IF NeedsCreate(m_symbolThreads, symbol)
                THEN /\ m_orderBooks' = MapPut(m_orderBooks, symbol, w)
                     /\ m_queueMutexes' = m_queueMutexes \cup {symbol}
                     /\ m_queueCondVars' = m_queueCondVars \cup {symbol}
                     /\ m_symbolThreads' = MapPut(m_symbolThreads, symbol,
                            [worker |-> w, joinable |-> TRUE])
                     /\ workers' = Append(workers, NewWorker(symbol))
                ELSE UNCHANGED <<m_orderBooks, m_queueMutexes,
                                 m_queueCondVars, m_symbolThreads, workers>>
          /\ calls' = [calls EXCEPT ![c].pc = "push"]
    /\ UNCHANGED <<rest_vars, status, m_running, m_orderQueues, shutdowns,
                   logs>>

\* lock_guard(*m_queueMutexes[symbol]); m_orderQueues[symbol].push(action)
Push(c, type) ==
    LET symbol == calls[c].symbol IN
    IF symbol \notin m_queueMutexes
    THEN Dies
    ELSE /\ m_orderQueues' = MapPut(m_orderQueues, symbol,
                QueuePush(QueueOf(symbol), OrderAction(type, c)))
         /\ enqueued' = [enqueued EXCEPT
                ![symbol] = Append(@, OrderAction(type, c))]
         /\ calls' = [calls EXCEPT ![c].pc = "notify"]
         /\ UNCHANGED <<rest_vars, status, m_running, m_orderBooks,
                        m_symbolThreads, m_queueMutexes, m_queueCondVars,
                        workers, shutdowns, applied, called>>

\* m_queueCondVars[symbol]->notify_one(); return true;
Notify(c) ==
    IF calls[c].symbol \notin m_queueCondVars
    THEN Dies
    ELSE /\ calls' = [calls EXCEPT ![c].pc = "done", ![c].ret = "true"]
         /\ UNCHANGED <<rest_vars, status, m_running, maps, workers,
                        shutdowns, logs>>

ProcessOrderPush ==
    /\ status = "ok"
    /\ \E c \in 1..Len(calls) :
          /\ calls[c].op = "ADD" /\ calls[c].pc = "push"
          /\ Push(c, "ADD")

ProcessOrderNotify ==
    /\ status = "ok"
    /\ \E c \in 1..Len(calls) :
          /\ calls[c].op = "ADD" /\ calls[c].pc = "notify"
          /\ Notify(c)

\* --- cancelOrder
ManagerCancelBegin ==
    /\ status = "ok"
    /\ Len(calls) < MaxCalls
    /\ \E symbol \in Symbols :
          calls' = Append(calls,
              IF ~RunningCheck(m_running)
              THEN NewCall("CANCEL", NullOrder, symbol, "done", "false")
              ELSE NewCall("CANCEL", NullOrder, symbol, "find", "none"))
    /\ UNCHANGED <<rest_vars, status, m_running, maps, workers, shutdowns,
                   logs>>

ManagerCancelFind ==
    /\ status = "ok"
    /\ \E c \in 1..Len(calls) :
          /\ calls[c].op = "CANCEL" /\ calls[c].pc = "find"
          /\ calls' = IF calls[c].symbol \notin DOMAIN m_symbolThreads
                      THEN [calls EXCEPT ![c].pc = "done", ![c].ret = "false"]
                      ELSE [calls EXCEPT ![c].pc = "push"]
    /\ UNCHANGED <<rest_vars, status, m_running, maps, workers, shutdowns,
                   logs>>

ManagerCancelPush ==
    /\ status = "ok"
    /\ \E c \in 1..Len(calls) :
          /\ calls[c].op = "CANCEL" /\ calls[c].pc = "push"
          /\ Push(c, "CANCEL")

ManagerCancelNotify ==
    /\ status = "ok"
    /\ \E c \in 1..Len(calls) :
          /\ calls[c].op = "CANCEL" /\ calls[c].pc = "notify"
          /\ Notify(c)

\* --- symbolThreadFunction
SetWorker(w, pc) ==
    /\ workers' = [workers EXCEPT ![w].pc = pc]
    /\ UNCHANGED <<rest_vars, status, m_running, maps, calls, shutdowns,
                   logs>>

\* orderBook = m_orderBooks[symbol].get(); if (!orderBook) return;
WorkerStart ==
    /\ status = "ok"
    /\ \E w \in 1..Len(workers) :
          /\ workers[w].pc = "start"
          /\ SetWorker(w, IF workers[w].symbol \in DOMAIN m_orderBooks
                          THEN "loop" ELSE "done")

\* while (running && m_running.load())
LoopCondition(running, managerRunning) == running /\ managerRunning

WorkerLoop ==
    /\ status = "ok"
    /\ \E w \in 1..Len(workers) :
          /\ workers[w].pc = "loop"
          /\ SetWorker(w, IF LoopCondition(workers[w].running, m_running)
                          THEN "lock" ELSE "done")

\* the wait is over: leave if the manager stopped, else take the front
Dequeue(w) ==
    LET symbol == workers[w].symbol IN
    IF ~m_running
    THEN /\ workers' = [workers EXCEPT ![w].pc = "done"]
         /\ m_orderQueues' = MapPut(m_orderQueues, symbol, QueueOf(symbol))
    ELSE /\ workers' = [workers EXCEPT ![w].pc = "apply",
                                       ![w].action = Head(QueueOf(symbol))]
         /\ m_orderQueues' = MapPut(m_orderQueues, symbol,
                                    Tail(QueueOf(symbol)))

\* unique_lock(*m_queueMutexes[symbol]); the wait predicate is evaluated
WorkerLock ==
    /\ status = "ok"
    /\ \E w \in 1..Len(workers) :
          /\ workers[w].pc = "lock"
          /\ LET symbol == workers[w].symbol IN
             IF symbol \notin m_queueMutexes \/ symbol \notin m_queueCondVars
             THEN Dies
             ELSE /\ IF QueueOf(symbol) # <<>> \/ ~m_running
                     THEN Dequeue(w)
                     ELSE /\ workers' = [workers EXCEPT ![w].pc = "blocked"]
                          /\ m_orderQueues' =
                                 MapPut(m_orderQueues, symbol, <<>>)
                  /\ UNCHANGED <<rest_vars, status, m_running, m_orderBooks,
                                 m_symbolThreads, m_queueMutexes,
                                 m_queueCondVars, calls, shutdowns, logs>>

\* the condition variable wait returns
WorkerWake ==
    /\ status = "ok"
    /\ \E w \in 1..Len(workers) :
          /\ workers[w].pc = "blocked"
          /\ QueueOf(workers[w].symbol) # <<>> \/ ~m_running
          /\ Dequeue(w)
          /\ UNCHANGED <<rest_vars, status, m_running, m_orderBooks,
                         m_symbolThreads, m_queueMutexes, m_queueCondVars,
                         calls, shutdowns, logs>>

\* the switch on action.type; addOrder may invoke the fill callback
WorkerApply ==
    /\ status = "ok"
    /\ \E w \in 1..Len(workers) :
          /\ workers[w].pc = "apply"
          /\ LET symbol == workers[w].symbol
                 action == workers[w].action
             IN CASE action.type = "ADD" ->
                       /\ applied' = [applied EXCEPT
                              ![symbol] = Append(@, action)]
                       /\ \E fill \in BOOLEAN :
                             called' = IF fill
                                       THEN [called EXCEPT
                                           ![symbol] = Append(@, action)]
                                       ELSE called
                       /\ workers' = [workers EXCEPT ![w].pc = "loop",
                                                     ![w].action = NoAction]
                  [] action.type = "CANCEL" ->
                       /\ applied' = [applied EXCEPT
                              ![symbol] = Append(@, action)]
                       /\ called' = called
                       /\ workers' = [workers EXCEPT ![w].pc = "loop",
                                                     ![w].action = NoAction]
                  [] OTHER ->
                       /\ workers' = [workers EXCEPT ![w].pc = "loop",
                                                     ![w].action = NoAction,
                                                     ![w].running = FALSE]
                       /\ UNCHANGED <<applied, called>>
    /\ UNCHANGED <<rest_vars, status, m_running, maps, calls, shutdowns,
                   enqueued>>

\* --- shutdown
SetShutdown(s, r) ==
    /\ shutdowns' = [shutdowns EXCEPT ![s] = r]
    /\ UNCHANGED <<rest_vars, status, m_running, maps, workers, calls, logs>>

\* m_running = false;
ShutdownBegin ==
    /\ status = "ok"
    /\ Len(shutdowns) < MaxShutdowns
    /\ m_running' = FALSE
    /\ shutdowns' = Append(shutdowns, NewShutdown)
    /\ UNCHANGED <<rest_vars, status, maps, workers, calls, logs>>

\* the symbols of m_symbolThreads are copied
ShutdownCopy ==
    /\ status = "ok"
    /\ \E s \in 1..Len(shutdowns) :
          /\ shutdowns[s].pc = "copy"
          /\ LET symbols == DOMAIN m_symbolThreads IN
             SetShutdown(s, [shutdowns[s] EXCEPT
                 !.pc = IF symbols = {} THEN "clear" ELSE "signal",
                 !.symbols = symbols, !.todo = symbols])

\* one round of the first loop: a Shutdown request for the symbol's worker
ShutdownSignal ==
    /\ status = "ok"
    /\ \E s \in 1..Len(shutdowns) :
          /\ shutdowns[s].pc = "signal"
          /\ \E symbol \in shutdowns[s].todo :
                /\ IF \/ symbol \notin m_queueMutexes
                      \/ symbol \notin m_queueCondVars
                      \/ symbol \notin DOMAIN m_orderQueues
                   THEN UNCHANGED <<m_orderQueues, enqueued>>
                   ELSE /\ m_orderQueues' = MapPut(m_orderQueues, symbol,
                               QueuePush(QueueOf(symbol), ShutdownAction))
                        /\ enqueued' = [enqueued EXCEPT
                               ![symbol] = Append(@, ShutdownAction)]
                /\ shutdowns' = [shutdowns EXCEPT ![s] =
                       IF shutdowns[s].todo = {symbol}
                       THEN [@ EXCEPT !.pc = "find",
                                      !.todo = shutdowns[s].symbols]
                       ELSE [@ EXCEPT !.todo = @ \ {symbol}]]
    /\ UNCHANGED <<rest_vars, status, m_running, m_orderBooks,
                   m_symbolThreads, m_queueMutexes, m_queueCondVars, workers,
                   calls, applied, called>>

\* one round of the second loop begins: threadPtr = &(it->second)
ShutdownFind ==
    /\ status = "ok"
    /\ \E s \in 1..Len(shutdowns) :
          /\ shutdowns[s].pc = "find"
          /\ \E symbol \in shutdowns[s].todo :
                SetShutdown(s, [shutdowns[s] EXCEPT
                    !.pc = "join", !.symbol = symbol, !.todo = @ \ {symbol},
                    !.threadPtr = IF symbol \in DOMAIN m_symbolThreads
                                  THEN m_symbolThreads[symbol].worker
                                  ELSE 0])

\* the round of the second loop is over
NextRound(r) ==
    [r EXCEPT !.pc = IF r.todo = {} THEN "clear" ELSE "find",
              !.symbol = 0, !.threadPtr = 0]

\* threadPtr points at a thread that m_symbolThreads no longer holds
Dangling(r) ==
    /\ r.threadPtr # 0
    /\ \/ r.symbol \notin DOMAIN m_symbolThreads
       \/ m_symbolThreads[r.symbol].worker # r.threadPtr

\* another caller of shutdown is inside join() on the same thread
JoinedByOther(s) ==
    \E t \in 1..Len(shutdowns) :
        /\ t # s
        /\ shutdowns[t].pc = "joining"
        /\ shutdowns[t].threadPtr = shutdowns[s].threadPtr

\* if (threadPtr && threadPtr->joinable()) threadPtr->join();
ShutdownJoin ==
    /\ status = "ok"
    /\ \E s \in 1..Len(shutdowns) :
          /\ shutdowns[s].pc = "join"
          /\ LET r == shutdowns[s] IN
             IF r.threadPtr = 0
             THEN SetShutdown(s, NextRound(r))
             ELSE IF Dangling(r)
             THEN Dies \/ SetShutdown(s, NextRound(r))
             ELSE IF ~m_symbolThreads[r.symbol].joinable
             THEN SetShutdown(s, NextRound(r))
             ELSE IF JoinedByOther(s)
             THEN Dies \/ SetShutdown(s, [r EXCEPT !.pc = "joining"])
             ELSE SetShutdown(s, [r EXCEPT !.pc = "joining"])

\* a join() that does not wait for the thread
JoinReturns_AtOnce(w) == TRUE

\* join() returns once the thread has left symbolThreadFunction
JoinReturns(w) == workers[w].pc = "done"

\* threadPtr->join() returns
ShutdownJoined ==
    /\ status = "ok"
    /\ \E s \in 1..Len(shutdowns) :
          /\ shutdowns[s].pc = "joining"
          /\ JoinReturns(shutdowns[s].threadPtr)
          /\ LET r == shutdowns[s] IN
             IF Dangling(r)
             THEN Dies \/ SetShutdown(s, NextRound(r))
             ELSE /\ m_symbolThreads' = [m_symbolThreads EXCEPT
                         ![r.symbol].joinable = FALSE]
                  /\ shutdowns' = [shutdowns EXCEPT ![s] = NextRound(r)]
                  /\ UNCHANGED <<rest_vars, status, m_running, m_orderBooks,
                                 m_orderQueues, m_queueMutexes,
                                 m_queueCondVars, workers, calls, logs>>

\* the five maps are cleared; destroying a joinable thread is std::terminate
ShutdownClear ==
    /\ status = "ok"
    /\ \E s \in 1..Len(shutdowns) :
          /\ shutdowns[s].pc = "clear"
          /\ IF \E symbol \in DOMAIN m_symbolThreads :
                    m_symbolThreads[symbol].joinable
             THEN Dies
             ELSE /\ m_symbolThreads' = EmptyMap
                  /\ m_orderBooks' = EmptyMap
                  /\ m_orderQueues' = EmptyMap
                  /\ m_queueMutexes' = {}
                  /\ m_queueCondVars' = {}
                  /\ shutdowns' = [shutdowns EXCEPT ![s].pc = "returned"]
                  /\ UNCHANGED <<rest_vars, status, m_running, workers,
                                 calls, logs>>

\* --- unsynchronised accesses to the maps
\* lock 0 is m_mapMutex, lock s is the queue mutex of symbol s, and an
\* access made under no mutex carries lock -1
Access(map, write, lock) == [map |-> map, write |-> write, lock |-> lock]

CallAccesses(c) ==
    LET symbol == calls[c].symbol
        pc == calls[c].pc
    IN CASE pc = "create" /\ NeedsCreate(m_symbolThreads, symbol) ->
              {Access(m, TRUE, 0) :
                  m \in {"m_orderBooks", "m_queueMutexes", "m_queueCondVars",
                         "m_symbolThreads"}}
         [] pc = "push" ->
              {Access("m_queueMutexes", FALSE, 0 - 1),
               Access("m_orderQueues", symbol \notin DOMAIN m_orderQueues,
                      symbol)}
         [] pc = "notify" -> {Access("m_queueCondVars", FALSE, 0 - 1)}
         [] OTHER -> {}

WorkerAccesses(w) ==
    LET symbol == workers[w].symbol
        pc == workers[w].pc
    IN CASE pc = "lock" ->
              {Access("m_queueMutexes", FALSE, 0 - 1),
               Access("m_queueCondVars", FALSE, symbol),
               Access("m_orderQueues", symbol \notin DOMAIN m_orderQueues,
                      symbol)}
         [] pc = "blocked" ->
              {Access("m_orderQueues", FALSE, symbol)}
         [] OTHER -> {}

ShutdownAccesses(s) ==
    LET pc == shutdowns[s].pc
    IN CASE pc = "signal" -> {Access("m_orderQueues", FALSE, 0)}
         [] pc = "clear" ->
              {Access(m, TRUE, 0) :
                  m \in {"m_orderBooks", "m_queueMutexes", "m_queueCondVars",
                         "m_symbolThreads", "m_orderQueues"}}
         [] OTHER -> {}

\* the accesses the threads are about to make, each with its thread
PendingAccesses ==
    UNION {{<<1, c, a>> : a \in CallAccesses(c)} : c \in 1..Len(calls)}
    \cup UNION {{<<2, w, a>> : a \in WorkerAccesses(w)} :
                   w \in 1..Len(workers)}
    \cup UNION {{<<3, s, a>> : a \in ShutdownAccesses(s)} :
                   s \in 1..Len(shutdowns)}

\* two threads access one map, one of them writes, no common mutex
Conflict(x, y) ==
    /\ <<x[1], x[2]>> # <<y[1], y[2]>>
    /\ x[3].map = y[3].map
    /\ x[3].write \/ y[3].write
    /\ x[3].lock # y[3].lock \/ x[3].lock < 0

RacePending == \E x, y \in PendingAccesses : Conflict(x, y)

\* a data race corrupts a map and the process dies (or goes unnoticed:
\* then the threads take their steps as if there were none)
DataRace ==
    /\ status = "ok"
    /\ RacePending
    /\ Dies

ManagerInit ==
    /\ m_running = TRUE
    /\ m_orderBooks = EmptyMap
    /\ m_symbolThreads = EmptyMap
    /\ m_orderQueues = EmptyMap
    /\ m_queueMutexes = {}
    /\ m_queueCondVars = {}
    /\ workers = <<>>
    /\ calls = <<>>
    /\ shutdowns = <<>>
    /\ enqueued = [s \in Symbols |-> <<>>]
    /\ applied = [s \in Symbols |-> <<>>]
    /\ called = [s \in Symbols |-> <<>>]

\* --------------------------------------- Order::fillQuantity, concurrent
\* Threads call fillQuantity on one Order.  m_filledQty is a plain double:
\* a read or write of it that races with another thread's write yields any
\* value; m_filledQtyAtomic is only touched by atomic operations.  A
\* spurious failure of compare_exchange_weak reloads the same value and
\* repeats the step.

Fillers == 1..MaxFillers

\* the values a racing access may leave or return
FillValues == 0..MaxFilled

NewFiller ==
    [pc |-> "idle", fillAmount |-> 0, current |-> 0, desired |-> 0,
     sum |-> 0]

\* the amounts of the calls begun so far
FillBegun ==
    LET RECURSIVE Sum(_)
        Sum(S) == IF S = {} THEN 0
                  ELSE LET t == CHOOSE x \in S : TRUE
                       IN fillers[t].sum
                          + (IF fillers[t].pc = "cas"
                             THEN fillers[t].fillAmount ELSE 0)
                          + Sum(S \ {t})
    IN Sum(Fillers)

\* another thread is about to write m_filledQty
StoreRaces(t) == \E u \in Fillers : u # t /\ fillers[u].pc = "store"

\* double current = m_filledQty; double desired = current + fillAmount;
FillBegin ==
    /\ status = "ok"
    /\ \E t \in Fillers, fillAmount \in 1..MaxQty :
          /\ fillers[t].pc = "idle"
          /\ FillBegun + fillAmount <= MaxFilled
          /\ \E current \in (IF StoreRaces(t) THEN FillValues
                             ELSE {m_filledQty}) :
                fillers' = [fillers EXCEPT ![t] =
                    [@ EXCEPT !.pc = "cas", !.fillAmount = fillAmount,
                              !.current = current,
                              !.desired = current + fillAmount]]
    /\ UNCHANGED <<m_filledQty, m_filledQtyAtomic>>
    /\ UNCHANGED <<book_vars, status, mgr_vars, limit_vars, bench_vars>>

\* a compare-exchange that always succeeds: a plain store
CompareExchange_Always(atomic, expected) == TRUE

\* compare_exchange_weak(current, desired) succeeds
CompareExchange(atomic, expected) == atomic = expected

\* one round of the while loop
FillCas ==
    /\ status = "ok"
    /\ \E t \in Fillers :
          /\ fillers[t].pc = "cas"
          /\ IF CompareExchange(m_filledQtyAtomic, fillers[t].current)
             THEN /\ m_filledQtyAtomic' = fillers[t].desired
                  /\ fillers' = [fillers EXCEPT ![t] =
                         [@ EXCEPT !.pc = "store",
                                   !.sum = @ + fillers[t].fillAmount]]
             ELSE /\ m_filledQtyAtomic' = m_filledQtyAtomic
                  /\ fillers' = [fillers EXCEPT ![t] =
                         [@ EXCEPT !.current = m_filledQtyAtomic,
                                   !.desired = m_filledQtyAtomic
                                               + fillers[t].fillAmount]]
    /\ UNCHANGED m_filledQty
    /\ UNCHANGED <<book_vars, status, mgr_vars, limit_vars, bench_vars>>

\* m_filledQty = desired;
FillStore ==
    /\ status = "ok"
    /\ \E t \in Fillers :
          /\ fillers[t].pc = "store"
          /\ m_filledQty' \in (IF StoreRaces(t) THEN FillValues
                               ELSE {fillers[t].desired})
          /\ fillers' = [fillers EXCEPT ![t] =
                 [@ EXCEPT !.pc = "idle", !.fillAmount = 0, !.current = 0,
                           !.desired = 0]]
    /\ UNCHANGED m_filledQtyAtomic
    /\ UNCHANGED <<book_vars, status, mgr_vars, limit_vars, bench_vars>>

\* getFilledQty()
getFilledQty == m_filledQtyAtomic

FillInit ==
    /\ m_filledQty = 0
    /\ m_filledQtyAtomic = 0
    /\ fillers = [t \in Fillers |-> NewFiller]

NextFill ==
    \/ FillBegin
    \/ FillCas
    \/ FillStore

\* ------------------------------- Limit, one writer and one reader thread
\* The writer calls Limit::addOrder and Limit::removeOrder; each changes
\* m_orders under m_ordersMutex and, after releasing it, the atomic total
\* volume.  The reader calls empty/frontOrder/backOrder and then
\* getTotalVolume.  mutated and updated count the writer's changes of the
\* list and of the volume; the reader notes both counts as it reads.

LimitOrderIds == 1..MaxLimitOps

NoLimitOrder == [id |-> 0, quantity |-> 0]

NewWriter ==
    [pc |-> "idle", order |-> NoLimitOrder, ops |-> 0, mutated |-> 0,
     updated |-> 0]

NewReader ==
    [pc |-> "idle", empty |-> TRUE, front |-> 0, back |-> 0,
     totalVolume |-> 0, seenMutated |-> 0, seenUpdated |-> 0]

\* updateTotalVolume(change): an atomic addition, there is one writer
updateTotalVolume(change) == m_totalVolumeAtomic + change

\* Limit::addOrder up to the release of m_ordersMutex
LimitAddOrderList ==
    /\ status = "ok"
    /\ writer.pc = "idle"
    /\ writer.ops < MaxLimitOps
    /\ \E id \in LimitOrderIds, quantity \in 1..MaxQty :
          /\ \A i \in 1..Len(limit_orders) : limit_orders[i].id # id
          /\ LET order == [id |-> id, quantity |-> quantity] IN
             /\ limit_orders' = Append(limit_orders, order)
             /\ writer' = [writer EXCEPT !.pc = "add_volume",
                                         !.order = order, !.ops = @ + 1,
                                         !.mutated = @ + 1]
    /\ UNCHANGED <<m_totalVolumeAtomic, reader>>
    /\ UNCHANGED <<book_vars, status, mgr_vars, fill_vars, bench_vars>>

\* Limit::addOrder: updateTotalVolume(remainingQty)
LimitAddOrderVolume ==
    /\ status = "ok"
    /\ writer.pc = "add_volume"
    /\ m_totalVolumeAtomic' = updateTotalVolume(writer.order.quantity)
    /\ writer' = [writer EXCEPT !.pc = "idle", !.order = NoLimitOrder,
                                !.updated = @ + 1]
    /\ UNCHANGED <<limit_orders, reader>>
    /\ UNCHANGED <<book_vars, status, mgr_vars, fill_vars, bench_vars>>

\* Limit::removeOrder up to the release of m_ordersMutex
LimitRemoveOrderList ==
    /\ status = "ok"
    /\ writer.pc = "idle"
    /\ writer.ops < MaxLimitOps
    /\ \E id \in LimitOrderIds :
          LET found == {i \in 1..Len(limit_orders) : limit_orders[i].id = id}
          IN IF found = {}
             THEN /\ writer' = [writer EXCEPT !.ops = @ + 1]
                  /\ UNCHANGED limit_orders
             ELSE LET i == CHOOSE x \in found : TRUE IN
                  /\ limit_orders' = SeqErase(limit_orders, i)
                  /\ writer' = [writer EXCEPT !.pc = "remove_volume",
                                              !.order = limit_orders[i],
                                              !.ops = @ + 1,
                                              !.mutated = @ + 1]
    /\ UNCHANGED <<m_totalVolumeAtomic, reader>>
    /\ UNCHANGED <<book_vars, status, mgr_vars, fill_vars, bench_vars>>

\* Limit::removeOrder: if (remainingQty > 0) updateTotalVolume(-remainingQty)
LimitRemoveOrderVolume ==
    /\ status = "ok"
    /\ writer.pc = "remove_volume"
    /\ m_totalVolumeAtomic' =
          IF writer.order.quantity > 0
          THEN updateTotalVolume(-writer.order.quantity)
          ELSE m_totalVolumeAtomic
    /\ writer' = [writer EXCEPT !.pc = "idle", !.order = NoLimitOrder,
                                !.updated = @ + 1]
    /\ UNCHANGED <<limit_orders, reader>>
    /\ UNCHANGED <<book_vars, status, mgr_vars, fill_vars, bench_vars>>

\* empty(), frontOrder() and backOrder(), each under m_ordersMutex; the
\* writer holds the mutex only inside its list step
ReaderObserveList ==
    /\ status = "ok"
    /\ reader.pc \in {"idle", "done"}
    /\ reader' = [reader EXCEPT
          !.pc = "volume",
          !.empty = (limit_orders = <<>>),
          !.front = IF limit_orders = <<>> THEN 0 ELSE Head(limit_orders).id,
          !.back = IF limit_orders = <<>> THEN 0
                   ELSE limit_orders[Len(limit_orders)].id,
          !.seenMutated = writer.mutated]
    /\ UNCHANGED <<limit_orders, m_totalVolumeAtomic, writer>>
    /\ UNCHANGED <<book_vars, status, mgr_vars, fill_vars, bench_vars>>

\* getTotalVolume()
ReaderGetTotalVolume ==
    /\ status = "ok"
    /\ reader.pc = "volume"
    /\ reader' = [reader EXCEPT !.pc = "done",
                                !.totalVolume = m_totalVolumeAtomic,
                                !.seenUpdated = writer.updated]
    /\ UNCHANGED <<limit_orders, m_totalVolumeAtomic, writer>>
    /\ UNCHANGED <<book_vars, status, mgr_vars, fill_vars, bench_vars>>

LimitInit ==
    /\ limit_orders = <<>>
    /\ m_totalVolumeAtomic = 0
    /\ writer = NewWriter
    /\ reader = NewReader

NextLimit ==
    \/ LimitAddOrderList
    \/ LimitAddOrderVolume
    \/ LimitRemoveOrderList
    \/ LimitRemoveOrderVolume
    \/ ReaderObserveList
    \/ ReaderGetTotalVolume

\* ------------------------------------------------ BenchOrderBookManager
\* Threads call createOrderBook and addOrder.  m_mutex is a std::mutex,
\* not recursive: bench_mutex is the call that owns it, 0 when it is free.
\* A thread that locks it again while owning it has undefined behaviour;
\* the builds block forever, throw std::system_error, or treat the lock as
\* taken.  The book's own addOrder is kept as its BOOLEAN result.

BenchSymbols == 1..MaxBenchSymbols

NewBenchCall(op, symbol) ==
    [op |-> op, symbol |-> symbol, pc |-> "lock", ret |-> FALSE]

SetBenchCall(c, pc) == bench_calls' = [bench_calls EXCEPT ![c].pc = pc]

\* a thread enters createOrderBook(symbol) or addOrder(order, fillCallback)
BenchCall ==
    /\ status = "ok"
    /\ Len(bench_calls) < MaxBenchCalls
    /\ \E op \in {"createOrderBook", "addOrder"}, symbol \in BenchSymbols :
          bench_calls' = Append(bench_calls, NewBenchCall(op, symbol))
    /\ UNCHANGED <<bench_books, bench_mutex>>
    /\ UNCHANGED <<book_vars, status, mgr_vars, fill_vars, limit_vars>>

\* std::lock_guard<std::mutex> lock(m_mutex), by a thread that does not
\* own the mutex
BenchLock ==
    /\ status = "ok"
    /\ \E c \in 1..Len(bench_calls) :
          /\ bench_calls[c].pc = "lock"
          /\ bench_mutex = 0
          /\ bench_mutex' = c
          /\ SetBenchCall(c, "find")
    /\ UNCHANGED bench_books
    /\ UNCHANGED <<book_vars, status, mgr_vars, fill_vars, limit_vars>>

\* createOrderBook: the body and the release of the mutex
BenchCreateOrderBook ==
    /\ status = "ok"
    /\ \E c \in 1..Len(bench_calls) :
          /\ bench_calls[c].op = "createOrderBook"
          /\ bench_calls[c].pc = "find"
          /\ bench_books' = bench_books \cup {bench_calls[c].symbol}
          /\ bench_mutex' = 0
          /\ SetBenchCall(c, "returned")
    /\ UNCHANGED <<book_vars, status, mgr_vars, fill_vars, limit_vars>>

\* addOrder: m_orderBooks.find(order->getSymbol()); an unknown symbol
\* leads into createOrderBook with m_mutex held
BenchAddOrderFind ==
    /\ status = "ok"
    /\ \E c \in 1..Len(bench_calls) :
          /\ bench_calls[c].op = "addOrder"
          /\ bench_calls[c].pc = "find"
          /\ SetBenchCall(c, IF bench_calls[c].symbol \in bench_books
                             THEN "book" ELSE "relock")
    /\ UNCHANGED <<bench_books, bench_mutex>>
    /\ UNCHANGED <<book_vars, status, mgr_vars, fill_vars, limit_vars>>

\* the lock_guard of createOrderBook, inside addOrder: m_mutex.lock() by
\* the owner
BenchRelock ==
    /\ status = "ok"
    /\ \E c \in 1..Len(bench_calls) :
          /\ bench_calls[c].pc = "relock"
          /\ bench_mutex = c
          /\ \/ /\ SetBenchCall(c, "deadlocked")
                /\ UNCHANGED <<bench_books, bench_mutex>>
             \/ /\ SetBenchCall(c, "thrown")
                /\ bench_mutex' = 0
                /\ UNCHANGED bench_books
             \/ /\ SetBenchCall(c, "book")
                /\ bench_books' = bench_books \cup {bench_calls[c].symbol}
                /\ bench_mutex' = 0
    /\ UNCHANGED <<book_vars, status, mgr_vars, fill_vars, limit_vars>>

\* return it->second->addOrder(order, fillCallback);
BenchAddOrderBook ==
    /\ status = "ok"
    /\ \E c \in 1..Len(bench_calls), ret \in BOOLEAN :
          /\ bench_calls[c].pc = "book"
          /\ bench_calls' = [bench_calls EXCEPT ![c].pc = "returned",
                                                ![c].ret = ret]
          /\ bench_mutex' = IF bench_mutex = c THEN 0 ELSE bench_mutex
    /\ UNCHANGED bench_books
    /\ UNCHANGED <<book_vars, status, mgr_vars, fill_vars, limit_vars>>

BenchInit ==
    /\ bench_books = {}
    /\ bench_mutex = 0
    /\ bench_calls = <<>>

NextBench ==
    \/ BenchCall
    \/ BenchLock
    \/ BenchCreateOrderBook
    \/ BenchAddOrderFind
    \/ BenchRelock
    \/ BenchAddOrderBook

Init ==
    /\ orders = <<>>
    /\ bids = EmptyMap
    /\ asks = EmptyMap
    /\ m_orders = EmptyMap
    /\ status = "ok"
    /\ irregular = 0
    /\ ManagerInit
    /\ FillInit
    /\ LimitInit
    /\ BenchInit

Next ==
    \/ AddOrderNew
    \/ AddOrderAgain
    \/ MatchOrderNew
    \/ MatchOrderAgain
    \/ CancelOrder

Spec == Init /\ [][Next]_vars

\* the book driven through addOrder and cancelOrder only
NextAddCancel ==
    \/ AddOrderNew
    \/ AddOrderAgain
    \/ CancelOrder

SpecAddCancel == Init /\ [][NextAddCancel]_vars

\* the dispatcher, with its producers, workers and callers of shutdown
NextDispatcher ==
    \/ ProcessOrderBegin
    \/ ProcessOrderCreate
    \/ ProcessOrderPush
    \/ ProcessOrderNotify
    \/ ManagerCancelBegin
    \/ ManagerCancelFind
    \/ ManagerCancelPush
    \/ ManagerCancelNotify
    \/ WorkerStart
    \/ WorkerLoop
    \/ WorkerLock
    \/ WorkerWake
    \/ WorkerApply
    \/ ShutdownBegin
    \/ ShutdownCopy
    \/ ShutdownSignal
    \/ ShutdownFind
    \/ ShutdownJoin
    \/ ShutdownJoined
    \/ ShutdownClear
    \/ DataRace

SpecDispatcher == Init /\ [][NextDispatcher]_vars

\* one Order filled by several threads
SpecFill == Init /\ [][NextFill]_vars

\* one Limit changed by one thread and read by another
SpecLimit == Init /\ [][NextLimit]_vars

\* one BenchOrderBookManager called by several threads
SpecBench == Init /\ [][NextBench]_vars

\* ---------------------------------------------------------------- claims
RECURSIVE SumQty(_)
SumQty(fs) == IF fs = <<>> THEN 0 ELSE Head(fs).qty + SumQty(Tail(fs))

RECURSIVE SumRemaining(_, _)
SumRemaining(fifo, ords) ==
    IF fifo = <<>> THEN 0
    ELSE Remaining(ords[Head(fifo)]) + SumRemaining(Tail(fifo), ords)

\* the places <<side, price, position>> of a book, and those holding h
Slots(b) ==
    {<<"BUY", p, i>> : p \in DOMAIN b.bids, i \in 1..MaxOrders + MaxIrregular}
    \cup {<<"SELL", p, i>> : p \in DOMAIN b.asks, i \in 1..MaxOrders + MaxIrregular}

SlotsOf(b, h) ==
    {s \in Slots(b) : /\ s[3] <= Len(SideMap(b, s[1])[s[2]].fifo)
                      /\ SideMap(b, s[1])[s[2]].fifo[s[3]] = h}

FreshId == Cardinality(UsedIds) + 1

\* the best opposite level is at a price the LIMIT order o accepts
Crosses(b, o) ==
    IF o.side = "BUY"
    THEN DOMAIN b.asks # {} /\ SetMin(DOMAIN b.asks) <= o.price
    ELSE DOMAIN b.bids # {} /\ SetMax(DOMAIN b.bids) >= o.price

\* h rests with remaining quantity q at its own price, or not at all if q <= 0
RestsWith(b, h, q) ==
    IF q > 0
    THEN /\ SlotsOf(b, h) # {}
         /\ \A s \in SlotsOf(b, h) : s[1] = b.orders[h].side /\ s[2] = b.orders[h].price
         /\ Remaining(b.orders[h]) = q
    ELSE SlotsOf(b, h) = {}

\* C1: addOrder of an active LIMIT order with a new id matches it against
\* the opposite side first (at least one fill when the best opposite price
\* is acceptable) and rests only the quantity the fills left.
C1_AddLimitMatchesFirst ==
    status = "ok" =>
        \A o \in OrdersWithIds({FreshId}), c \in CrashPoints :
            LET r == addOrder(WithNew(o), NewHandle, c) IN
            (o.type = "LIMIT" /\ o.quantity > 0 /\ r.status = "ok") =>
                /\ r.ret
                /\ Crosses(Book, o) => r.fills # <<>>
                /\ RestsWith(r.b, NewHandle, o.quantity - SumQty(r.fills))

\* C2: after every completed call, when both sides are non-empty the highest
\* bid is strictly below the lowest ask.
C2_NeverCrossed ==
    (status = "ok" /\ DOMAIN bids # {} /\ DOMAIN asks # {}) =>
        SetMax(DOMAIN bids) < SetMin(DOMAIN asks)

\* C3: every level's total volume is the sum of quantity - filledQty over
\* the orders in its FIFO.
C3_VolumeIsSumOfRemaining ==
    status = "ok" =>
        /\ \A p \in DOMAIN bids :
              bids[p].totalVolume = SumRemaining(bids[p].fifo, orders)
        /\ \A p \in DOMAIN asks :
              asks[p].totalVolume = SumRemaining(asks[p].fifo, orders)

\* C4: with addOrder and cancelOrder only, an order is in the id index (under
\* its own id) iff it is in exactly one place of one level, and that level
\* is on its own side at its own price.
C4_IndexIffInOneLevel ==
    status = "ok" =>
        /\ \A id \in DOMAIN m_orders : orders[m_orders[id]].id = id
        /\ \A h \in 1..Len(orders) :
              h \in Range(m_orders) <=>
                  /\ Cardinality(SlotsOf(Book, h)) = 1
                  /\ \A s \in SlotsOf(Book, h) :
                        s[1] = orders[h].side /\ s[2] = orders[h].price

\* C4 witness: one order rests and is indexed while another, cancelled
\* before it was filled, has left both its level and the index.
C4_Witness ==
    /\ status = "ok"
    /\ \A h \in 1..Len(orders) : orders[h].quantity > 0
    /\ \E h1, h2 \in 1..Len(orders) :
          /\ h1 \in Range(m_orders) /\ SlotsOf(Book, h1) # {}
          /\ orders[h2].type = "LIMIT" /\ ~orders[h2].active
          /\ orders[h2].filledQty < orders[h2].quantity
          /\ h2 \notin Range(m_orders) /\ SlotsOf(Book, h2) = {}

\* C5: every order in the id index is active and has remaining quantity > 0.
C5_IndexedOrdersLive ==
    status = "ok" =>
        \A id \in DOMAIN m_orders :
            /\ orders[m_orders[id]].active
            /\ Remaining(orders[m_orders[id]]) > 0

\* C6: after every completed addOrder, cancelOrder or matchOrder neither side
\* map holds a level whose FIFO is empty.
C6_NoEmptyLevel ==
    status = "ok" =>
        /\ \A p \in DOMAIN bids : bids[p].fifo # <<>>
        /\ \A p \in DOMAIN asks : asks[p].fifo # <<>>

\* C6 witness: a level was dropped when its last order was cancelled (the
\* cancelled order's price is no key of its side any more) while another
\* level is still there.
C6_Witness ==
    /\ status = "ok"
    /\ \A h \in 1..Len(orders) : orders[h].quantity > 0
    /\ DOMAIN bids \cup DOMAIN asks # {}
    /\ \E h \in 1..Len(orders) :
          /\ orders[h].type = "LIMIT" /\ ~orders[h].active
          /\ orders[h].quantity > 0 /\ orders[h].filledQty < orders[h].quantity
          /\ orders[h].price \notin DOMAIN SideMap(Book, orders[h].side)

\* C7: addOrder returns false and leaves the book unchanged for a LIMIT or
\* MARKET order whose quantity is zero or negative.
C7_NonPositiveQuantityRejected ==
    status = "ok" =>
        \A o \in OrdersWithIds({FreshId}), c \in CrashPoints :
            (o.type \in {"LIMIT", "MARKET"} /\ o.quantity <= 0) =>
                LET r == addOrder(WithNew(o), NewHandle, c) IN
                ~r.ret /\ r.b = WithNew(o)

\* an addOrder result that rejected the order and touched nothing
Rejected(r, b) == ~r.ret /\ r.fills = <<>> /\ r.status = "ok" /\ r.b = b

C9_UsedIdRejected ==
    status = "ok" =>
        \A o \in OrdersWithIds(UsedIds), c \in CrashPoints :
            ~addOrder(WithNew(o), NewHandle, c).ret

\* the side map m without h at price p: the level dropped if h was its only
\* order, else h taken out of the FIFO and rem off the volume
WithoutOrder(m, p, h, rem) ==
    IF m[p].fifo = <<h>>
    THEN MapErase(m, p)
    ELSE MapPut(m, p, [fifo |-> SelectSeq(m[p].fifo, LAMBDA x : x # h),
                       totalVolume |-> m[p].totalVolume - rem])

\* C10: cancelOrder(id) of a resting id returns true, marks exactly that
\* order inactive, takes exactly that order out of its level (volume less
\* its remaining quantity, level dropped if empty) and out of the index, and
\* changes nothing else.
C10_CancelRemovesExactlyTarget ==
    status = "ok" =>
        \A id \in DOMAIN m_orders :
            LET h == m_orders[id]
                o == orders[h]
                r == cancelOrder(Book, id)
            IN /\ r.ret
               /\ r.b.orders = [orders EXCEPT ![h].active = FALSE]
               /\ r.b.m_orders = MapErase(m_orders, id)
               /\ SideMap(r.b, Opposite(o.side)) = SideMap(Book, Opposite(o.side))
               /\ SideMap(r.b, o.side) =
                     WithoutOrder(SideMap(Book, o.side), o.price, h, Remaining(o))

\* the ids a caller can name: those of the orders constructed and a new one
KnownIds == UsedIds \cup {FreshId}

\* C11: cancelOrder of an id the index does not hold (never added, cancelled
\* before, fully filled, or a MARKET order's) returns false and changes
\* nothing.
C11_CancelAbsentIsNoop ==
    status = "ok" =>
        \A id \in KnownIds \ DOMAIN m_orders :
            cancelOrder(Book, id) = Result(Book, FALSE, <<>>, "ok")

\* C11 witness: next to a resting order there are a cancelled order, a fully
\* filled LIMIT order and a processed MARKET order, none of them indexed,
\* and the cancel of the cancelled order's id is refused.
C11_Witness ==
    /\ status = "ok"
    /\ DOMAIN m_orders # {}
    /\ \E h1, h2 \in 1..Len(orders) :
          /\ orders[h1].type = "LIMIT" /\ ~orders[h1].active
          /\ orders[h1].quantity > 0 /\ orders[h1].filledQty = 0
          /\ orders[h1].id \notin DOMAIN m_orders
          /\ ~cancelOrder(Book, orders[h1].id).ret
          /\ orders[h2].type = "MARKET"
          /\ orders[h2].id \notin DOMAIN m_orders
          /\ ~cancelOrder(Book, orders[h2].id).ret

\* what the book shows at price p on each side: the level, if there is one
DepthAt(b, p) ==
    [s \in Sides |-> IF p \in DOMAIN SideMap(b, s)
                     THEN <<SideMap(b, s)[p]>> ELSE <<>>]

\* C12: for an order o that addOrder accepts and rests, addOrder(o) followed
\* by cancelOrder(o.id) leaves at o.price, on both sides, the level
\* existence, FIFO contents and total volume there were before the add.
C12_AddCancelRestoresDepth ==
    status = "ok" =>
        \A o \in OrdersWithIds(KnownIds \ DOMAIN m_orders) :
            o.type = "LIMIT" =>
                /\ addOrder(WithNew(o), NewHandle, 0).ret
                /\ cancelOrder(addOrder(WithNew(o), NewHandle, 0).b, o.id).ret
                /\ DepthAt(cancelOrder(addOrder(WithNew(o), NewHandle, 0).b,
                                       o.id).b, o.price)
                      = DepthAt(Book, o.price)

\* what C13 says of the result r of addOrder for the new MARKET order o
MarketDiscarded(r, o) ==
    /\ r.status = "ok" /\ r.ret
    /\ ~r.b.orders[NewHandle].active
    /\ NewHandle \notin Referenced(r.b)
    /\ SideMap(Book, Opposite(o.side)) = EmptyMap =>
          /\ r.fills = <<>>
          /\ r.b = [WithNew(o) EXCEPT !.orders[NewHandle] = deactivate(@)]

\* C13: for every active MARKET order with a new id, addOrder returns true
\* and leaves the order inactive, in no level and not in the index; with an
\* empty opposite side it emits no fill and leaves the book as it was.
C13_MarketNeverRests ==
    status = "ok" =>
        \A o \in OrdersWithIds({FreshId}), c \in CrashPoints :
            o.type = "MARKET" =>
                MarketDiscarded(addOrder(WithNew(o), NewHandle, c), o)

\* the price of fill f is the resting order's price, a price the opposite
\* side of book b offers, and no worse than the limit of a LIMIT taker o
FillPriceOk(b, o, f) ==
    /\ f.price = b.orders[f.maker].price
    /\ f.price \in DOMAIN SideMap(b, Opposite(o.side))
    /\ b.orders[f.maker].side = Opposite(o.side)
    /\ o.type = "LIMIT" =>
          IF o.side = "BUY" THEN f.price <= o.price ELSE f.price >= o.price

FillPricesOk(b, o, fs) == \A i \in 1..Len(fs) : FillPriceOk(b, o, fs[i])

\* C14: every fill is at the resting order's level price, and for a LIMIT
\* taker never worse than the taker's own price (<= for BUY, >= for SELL);
\* for every order matchOrder or addOrder may be given, new or submitted
\* before (a new one while the run may still construct orders), and every
\* fill emitted, also by a call that does not complete.
C14_FillAtRestingPriceWithinLimit ==
    status = "ok" =>
        \A c \in CrashPoints :
            /\ Len(orders) < MaxOrders =>
                  \A o \in OrdersWithIds({FreshId}) :
                      /\ FillPricesOk(Book, o, matchOrder(WithNew(o), NewHandle, c).fills)
                      /\ FillPricesOk(Book, o, addOrder(WithNew(o), NewHandle, c).fills)
            /\ \A h \in 1..Len(orders) :
                  /\ FillPricesOk(Book, orders[h], matchOrder(Book, h, c).fills)
                  /\ FillPricesOk(Book, orders[h], addOrder(Book, h, c).fills)

\* C14 witness: a LIMIT BUY taker priced above the best ask is filled at the
\* ask's price (price improvement), and a LIMIT SELL taker takes the best
\* bid and stops at the next bid, which is below its limit.
C14_Witness ==
    /\ status = "ok"
    /\ \E o \in OrdersWithIds({FreshId}) :
          /\ o.type = "LIMIT" /\ o.side = "BUY"
          /\ matchOrder(WithNew(o), NewHandle, 0).fills # <<>>
          /\ matchOrder(WithNew(o), NewHandle, 0).fills[1].price < o.price
    /\ \E o \in OrdersWithIds({FreshId}) :
          /\ o.type = "LIMIT" /\ o.side = "SELL"
          /\ Cardinality(DOMAIN bids) = 2
          /\ Len(matchOrder(WithNew(o), NewHandle, 0).fills) = 1
          /\ matchOrder(WithNew(o), NewHandle, 0).ret
          /\ NewHandle \in Range(matchOrder(WithNew(o), NewHandle, 0).b.m_orders)

\* the order table ords after fill f was added to both of its orders
AfterFill(ords, f) ==
    [ords EXCEPT ![f.taker].filledQty = @ + f.qty,
                 ![f.maker].filledQty = @ + f.qty]

\* replaying the fills fs from the order table ords: each has the smaller of
\* the two remaining quantities before it and leaves one of the two orders
\* with nothing remaining, and the fills account for every filled quantity
\* of the table final
RECURSIVE FillsAreMin(_, _, _)
FillsAreMin(ords, fs, final) ==
    IF fs = <<>>
    THEN \A h \in 1..Len(final) : final[h].filledQty = ords[h].filledQty
    ELSE /\ Head(fs).qty =
               IF Remaining(ords[Head(fs).taker]) < Remaining(ords[Head(fs).maker])
               THEN Remaining(ords[Head(fs).taker])
               ELSE Remaining(ords[Head(fs).maker])
         /\ \/ Remaining(AfterFill(ords, Head(fs))[Head(fs).taker]) = 0
            \/ Remaining(AfterFill(ords, Head(fs))[Head(fs).maker]) = 0
         /\ FillsAreMin(AfterFill(ords, Head(fs)), Tail(fs), final)

FillsAreMinOf(b, r) == FillsAreMin(b.orders, r.fills, r.b.orders)

\* C15: each fill has quantity min(taker remaining, resting remaining) as
\* they were before it, that quantity is added to the filled quantity of
\* both orders (and nothing else is), and one of the two is fully filled
\* after it; for every order matchOrder or addOrder may be given.
C15_FillIsMinOfRemaining ==
    status = "ok" =>
        \A c \in CrashPoints :
            /\ Len(orders) < MaxOrders =>
                  \A o \in OrdersWithIds({FreshId}) :
                      /\ FillsAreMinOf(WithNew(o), matchOrder(WithNew(o), NewHandle, c))
                      /\ FillsAreMinOf(WithNew(o), addOrder(WithNew(o), NewHandle, c))
            /\ \A h \in 1..Len(orders) :
                  /\ FillsAreMinOf(Book, matchOrder(Book, h, c))
                  /\ FillsAreMinOf(Book, addOrder(Book, h, c))

\* C15 witness: a taker of quantity 2 first exhausts a resting order of
\* remaining quantity 1 and is then exhausted by a fill of 1 against a
\* resting order that keeps a remainder.
C15_Witness ==
    /\ status = "ok"
    /\ \E o \in OrdersWithIds({FreshId}) :
          LET r == matchOrder(WithNew(o), NewHandle, 0) IN
          /\ o.quantity = 2 /\ Len(r.fills) = 2
          /\ r.fills[1].qty = 1 /\ r.fills[2].qty = 1
          /\ Remaining(r.b.orders[r.fills[1].maker]) = 0
          /\ Remaining(r.b.orders[r.fills[2].maker]) > 0
          /\ Remaining(r.b.orders[NewHandle]) = 0

RECURSIVE OrdersAfter(_, _)
OrdersAfter(ords, fs) ==
    IF fs = <<>> THEN ords ELSE OrdersAfter(AfterFill(ords, Head(fs)), Tail(fs))

\* the FIFO of the level order h rests in (its own side and price)
LevelFifo(b, h) == SideMap(b, b.orders[h].side)[b.orders[h].price].fifo

\* a occurs in fifo before the first occurrence of b
Before(fifo, a, b) ==
    \E i \in 1..Len(fifo) : fifo[i] = a /\ \A j \in 1..i : fifo[j] # b

\* when the i-th fill of fs goes to its resting order, every order that
\* stood before it in its level's FIFO (as book b had it before the call)
\* has nothing remaining after the fills before the i-th
FillInFifoOrder(b, fs, i) ==
    \A j \in 1..Len(LevelFifo(b, fs[i].maker)) :
        (\A k \in 1..j : LevelFifo(b, fs[i].maker)[k] # fs[i].maker) =>
            Remaining(OrdersAfter(b.orders, SubSeq(fs, 1, i - 1))
                          [LevelFifo(b, fs[i].maker)[j]]) = 0

FillsInFifoOrder(b, fs) == \A i \in 1..Len(fs) : FillInFifoOrder(b, fs, i)

SomeLevelHasTwo ==
    \/ \E p \in DOMAIN bids : Len(bids[p].fifo) >= 2
    \/ \E p \in DOMAIN asks : Len(asks[p].fifo) >= 2

\* in every match of a new order, or of one submitted before, the resting
\* orders of a level are filled in the order of its FIFO
MatchInFifoOrder ==
    (status = "ok" /\ SomeLevelHasTwo) =>
        \A c \in CrashPoints :
            /\ \A o \in OrdersWithIds({FreshId}) :
                  /\ FillsInFifoOrder(WithNew(o), matchOrder(WithNew(o), NewHandle, c).fills)
                  /\ FillsInFifoOrder(WithNew(o), addOrder(WithNew(o), NewHandle, c).fills)
            /\ \A h \in 1..Len(orders) :
                  /\ FillsInFifoOrder(Book, matchOrder(Book, h, c).fills)
                  /\ FillsInFifoOrder(Book, addOrder(Book, h, c).fills)

\* the live orders of FIFO new keep the relative order they had in FIFO old,
\* and those that were not in old stand behind those that were
KeepsOrder(old, new, ords) ==
    \A a, b \in Range(new) :
        (a # b /\ ords[a].active /\ ords[b].active /\ a \in Range(old)) =>
            IF b \in Range(old)
            THEN Before(old, a, b) => Before(new, a, b)
            ELSE Before(new, a, b)

\* a call (add, match or cancel) keeps the order of every level it leaves
FifoOrderKept ==
    /\ \A p \in DOMAIN bids \cap DOMAIN bids' :
          KeepsOrder(bids[p].fifo, bids'[p].fifo, orders')
    /\ \A p \in DOMAIN asks \cap DOMAIN asks' :
          KeepsOrder(asks[p].fifo, asks'[p].fifo, orders')

\* C16: time priority within a level.  Every call keeps the relative order
\* of the orders resting at a level and admits a new one behind them
\* (cancelling other orders does not reorder o1 and o2), and in every match
\* an order receives a fill only when every order before it in its level's
\* FIFO is exhausted.
C16_TimePriority == []MatchInFifoOrder /\ [][FifoOrderKept]_vars

\* C16 witness: o1 and o2 rest at one level, an order admitted between them
\* was cancelled, and a taker of quantity 2 fills o1 (exhausting it) and
\* then o2.
C16_Witness ==
    /\ status = "ok"
    /\ \A h \in 1..Len(orders) : orders[h].quantity > 0
    /\ \E h1, hc, h2 \in 1..Len(orders) :
          /\ h1 < hc /\ hc < h2
          /\ orders[hc].type = "LIMIT" /\ ~orders[hc].active
          /\ orders[hc].filledQty = 0
          /\ orders[hc].side = orders[h1].side /\ orders[hc].price = orders[h1].price
          /\ SlotsOf(Book, h1) # {} /\ LevelFifo(Book, h1) = <<h1, h2>>
          /\ \E o \in OrdersWithIds({FreshId}) :
                LET r == matchOrder(WithNew(o), NewHandle, 0) IN
                /\ Len(r.fills) = 2
                /\ r.fills[1].maker = h1 /\ r.fills[2].maker = h2
                /\ Remaining(r.b.orders[h1]) = 0

\* price p is strictly better than q for a taker of the given side
\* (lower ask for a BUY taker, higher bid for a SELL taker)
BetterFor(takerSide, p, q) == IF takerSide = "BUY" THEN p < q ELSE p > q

\* the orders resting in book b on the given side at prices strictly
\* better, for a taker of the opposite side, than q
RestingBetter(b, side, q) ==
    UNION {Range(SideMap(b, side)[p].fifo) :
              p \in {x \in DOMAIN SideMap(b, side) : BetterFor(Opposite(side), x, q)}}

\* the fills fs of a taker of side takerSide on book b: prices never get
\* better from one fill to the next, and at each fill nothing remains of the
\* orders that rested at a strictly better price
FillsBestPriceFirst(b, takerSide, fs) ==
    /\ \A i, j \in 1..Len(fs) :
          i < j => ~BetterFor(takerSide, fs[j].price, fs[i].price)
    /\ \A i \in 1..Len(fs) :
          \A m \in RestingBetter(b, Opposite(takerSide), fs[i].price) :
              Remaining(OrdersAfter(b.orders, SubSeq(fs, 1, i - 1))[m]) = 0

SomeSideHasTwoLevels ==
    Cardinality(DOMAIN bids) >= 2 \/ Cardinality(DOMAIN asks) >= 2

\* C17: price priority across levels.  The fills of one incoming order come
\* best price first (ascending asks for a BUY taker, descending bids for a
\* SELL taker), and an order is filled only when no order at a strictly
\* better level of its side still has quantity resting; for every order
\* matchOrder or addOrder may be given.
C17_PricePriority ==
    (status = "ok" /\ SomeSideHasTwoLevels) =>
        \A c \in CrashPoints :
            /\ \A o \in OrdersWithIds({FreshId}) :
                  /\ FillsBestPriceFirst(WithNew(o), o.side,
                                         matchOrder(WithNew(o), NewHandle, c).fills)
                  /\ FillsBestPriceFirst(WithNew(o), o.side,
                                         addOrder(WithNew(o), NewHandle, c).fills)
            /\ \A h \in 1..Len(orders) :
                  /\ FillsBestPriceFirst(Book, orders[h].side, matchOrder(Book, h, c).fills)
                  /\ FillsBestPriceFirst(Book, orders[h].side, addOrder(Book, h, c).fills)

\* C17 witness: a MARKET BUY sweeps two ask levels, the lower one first.
C17_Witness ==
    /\ status = "ok"
    /\ \A h \in 1..Len(orders) : orders[h].quantity > 0
    /\ Cardinality(DOMAIN asks) = 2
    /\ \E o \in OrdersWithIds({FreshId}) :
          LET r == addOrder(WithNew(o), NewHandle, 0) IN
          /\ o.type = "MARKET" /\ o.side = "BUY"
          /\ Len(r.fills) = 2
          /\ r.fills[1].price < r.fills[2].price
          /\ Remaining(r.b.orders[r.fills[1].maker]) = 0

\* the opposite-side prices of book b the LIMIT order o accepts
AcceptablePrices(b, o) ==
    {p \in DOMAIN SideMap(b, Opposite(o.side)) :
        IF o.side = "BUY" THEN p <= o.price ELSE p >= o.price}

\* what C18 says of the result r of matchOrder for the new LIMIT order o
LimitTakerDone(o, r) ==
    /\ r.status = "ok" /\ r.ret
    /\ IF Remaining(r.b.orders[NewHandle]) > 0
       THEN /\ RestsWith(r.b, NewHandle, Remaining(r.b.orders[NewHandle]))
            /\ NewHandle \in Range(r.b.m_orders)
            /\ AcceptablePrices(r.b, o) = {}
       ELSE SlotsOf(r.b, NewHandle) = {}
    /\ AcceptablePrices(Book, o) = {} =>
          /\ r.fills = <<>>
          /\ r.b = addOrderToBook(WithNew(o), NewHandle)

\* C18: matchOrder of a LIMIT taker (new id, quantity > 0) takes the
\* acceptable opposite levels and rests the residual at its own price on its
\* own side, so that no opposite order at an acceptable price remains when
\* it rests; with no acceptable opposite price it rests whole, with no fill.
C18_LimitTakerRestsResidual ==
    status = "ok" =>
        \A o \in OrdersWithIds({FreshId}), c \in CrashPoints :
            (o.type = "LIMIT" /\ o.quantity > 0) =>
                LimitTakerDone(o, matchOrder(WithNew(o), NewHandle, c))

FilledWithinQuantity ==
    \A h \in 1..Len(orders) :
        0 <= orders[h].filledQty /\ orders[h].filledQty <= orders[h].quantity

FilledNeverDecreases ==
    \A h \in 1..Len(orders) :
        h <= Len(orders') => orders[h].filledQty <= orders'[h].filledQty

\* C19: the filled quantity of every order that passed through the book
\* stays within [0, original quantity] and never decreases, across adds,
\* matches and cancels.
C19_FilledMonotoneAndBounded ==
    []FilledWithinQuantity /\ [][FilledNeverDecreases]_vars

\* a step leaves every inactive order as it is (no fill, not active again)
\* and in no more places of the book than before
InactiveIsTerminal ==
    \A h \in 1..Len(orders) :
        ~orders[h].active =>
            /\ h <= Len(orders') /\ orders'[h] = orders[h]
            /\ Cardinality(SlotsOf(BookOf(orders', bids', asks', m_orders'), h))
                  <= Cardinality(SlotsOf(Book, h))
            /\ h \notin Range(m_orders) => h \notin Range(m_orders')

\* C20: once an order is inactive (cancelled or fully filled) it never
\* receives another fill, as taker or as resting order, and is never placed
\* on the book again, also when the same object is given to addOrder or
\* matchOrder again.
C20_InactiveIsTerminal == [][InactiveIsTerminal]_vars

Requests(log) == SelectSeq(log, LAMBDA a : a.type # "SHUTDOWN")

IsPrefix(s, t) == Len(s) <= Len(t) /\ SubSeq(t, 1, Len(s)) = s

RECURSIVE IsSubSeq(_, _)
IsSubSeq(s, t) ==
    IF s = <<>> THEN TRUE
    ELSE IF t = <<>> THEN FALSE
    ELSE IF Head(s) = Head(t) THEN IsSubSeq(Tail(s), Tail(t))
    ELSE IsSubSeq(s, Tail(t))

\* C22: for each symbol the requests applied to the book are, in order, the
\* first requests pushed on the symbol's queue, whichever producers pushed
\* them, and the fill callbacks were invoked in that same order.
C22_AppliedInEnqueueOrder ==
    \A s \in Symbols :
        /\ IsPrefix(applied[s], Requests(enqueued[s]))
        /\ IsSubSeq(called[s], applied[s])

\* C22 witness: two producers' requests were applied to one book and both
\* had fills called back.
C22_Witness ==
    \E s \in Symbols :
        /\ Len(applied[s]) = 2
        /\ applied[s][1].call # applied[s][2].call
        /\ called[s] = applied[s]

\* the workers inside a book operation of symbol s: between taking a
\* request off the queue and the end of its addOrder or cancelOrder
Writers(s) ==
    {w \in 1..Len(workers) :
        /\ workers[w].symbol = s
        /\ workers[w].pc = "apply"
        /\ workers[w].action.type # "SHUTDOWN"}

SingleWriter == \A s \in Symbols : Cardinality(Writers(s)) <= 1

\* a step that mutates the book of s or calls back its fills is the step
\* that ends the operation of the one worker inside it
OnlyWriterMutates ==
    \A s \in Symbols :
        (applied'[s] # applied[s] \/ called'[s] # called[s]) =>
            \E w \in Writers(s) :
                /\ Writers(s) = {w}
                /\ workers'[w].pc # "apply"
                /\ applied'[s] = Append(applied[s], workers[w].action)

\* C23: at no time are two threads inside a mutating operation on one
\* symbol's book, and from a worker's dequeue to the end of its mutation
\* and callbacks nothing else mutates that book.
C23_SingleWriter == []SingleWriter /\ [][OnlyWriterMutates]_vars

\* C23 witness: a worker is inside a book operation while the next request
\* of the same symbol waits in the queue.
C23_Witness ==
    \E s \in Symbols :
        /\ Writers(s) # {}
        /\ QueueOf(s) # <<>>
        /\ Head(QueueOf(s)).type # "SHUTDOWN"

\* the OrderActions pushed before the first Shutdown request of a log
BeforeSentinel(log) ==
    IF \E i \in 1..Len(log) : log[i].type = "SHUTDOWN"
    THEN SubSeq(log, 1,
             (CHOOSE i \in 1..Len(log) :
                 /\ log[i].type = "SHUTDOWN"
                 /\ \A j \in 1..(i - 1) : log[j].type # "SHUTDOWN") - 1)
    ELSE <<>>

\* C24: when a symbol's worker has left its loop, every request pushed on
\* the symbol's queue before the Shutdown request has been applied.
C24_DrainedBeforeExit ==
    \A w \in 1..Len(workers) :
        workers[w].pc = "done" =>
            IsPrefix(BeforeSentinel(enqueued[workers[w].symbol]),
                     applied[workers[w].symbol])

\* C25: a call of shutdown that has finished its join loop has joined every
\* worker thread the manager holds, so that the maps can be released and
\* the call returns, also with producers submitting concurrently.
C25_ShutdownJoinsEveryWorker ==
    \A s \in 1..Len(shutdowns) :
        shutdowns[s].pc = "clear" =>
            \A symbol \in DOMAIN m_symbolThreads :
                ~m_symbolThreads[symbol].joinable

\* the workers of symbol s that have not left symbolThreadFunction
LiveWorkers(s) ==
    {w \in 1..Len(workers) : workers[w].symbol = s /\ workers[w].pc # "done"}

\* C26: a symbol has at most one live worker thread, and that worker is the
\* thread m_symbolThreads holds for the symbol, with the one OrderBook that
\* was created with it, however many producers submit for the symbol.
C26_OneWorkerPerSymbol ==
    \A s \in Symbols :
        /\ Cardinality(LiveWorkers(s)) <= 1
        /\ \A w \in LiveWorkers(s) :
              /\ s \in DOMAIN m_symbolThreads
              /\ m_symbolThreads[s].worker = w
              /\ s \in DOMAIN m_orderBooks
              /\ m_orderBooks[s] = w

\* C26 witness: two calls of processOrder for one symbol are both past the
\* creation step and the symbol has one worker.
C26_Witness ==
    /\ Len(calls) = 2
    /\ calls[1].symbol = calls[2].symbol
    /\ calls[1].pc = "push" /\ calls[2].pc = "push"
    /\ calls[1].op = "ADD" /\ calls[2].op = "ADD"
    /\ Len(workers) = 1
    /\ LiveWorkers(calls[1].symbol) = {1}

NoWriterAfterShutdown == ShutdownReturned => \A s \in Symbols : Writers(s) = {}

NoMutationAfterShutdown == ShutdownReturned => UNCHANGED <<applied, called>>

\* C27: once a call of shutdown has returned, no worker is inside a book
\* operation and no step mutates a book or invokes a fill callback.
C27_QuietAfterShutdown ==
    []NoWriterAfterShutdown /\ [][NoMutationAfterShutdown]_vars

\* C27 witness: shutdown has returned after one request of a symbol was
\* applied and while another, accepted by processOrder, was not.
C27_Witness ==
    /\ ShutdownReturned
    /\ \E s \in Symbols :
          /\ Len(applied[s]) = 1
          /\ Len(Requests(enqueued[s])) = 2
          /\ \A c \in 1..Len(calls) : calls[c].ret = "true"

\* a step in which a call is made after shutdown has returned creates
\* nothing and pushes nothing
LateCallIsNoop ==
    (ShutdownReturned /\ Len(calls') > Len(calls)) =>
        UNCHANGED <<m_orderBooks, m_symbolThreads, m_orderQueues,
                    m_queueMutexes, m_queueCondVars, workers, enqueued,
                    applied, called, status>>

LateCallReturnsFalse ==
    \A c \in 1..Len(calls) :
        calls[c].late => calls[c].pc = "done" /\ calls[c].ret = "false"

\* C28: a call of processOrder or cancelOrder made after shutdown has
\* returned returns false at once, and pushes and creates nothing.
C28_RejectedAfterShutdown ==
    []LateCallReturnsFalse /\ [][LateCallIsNoop]_vars

\* C28 witness: after shutdown returned, processOrder was called with an
\* order and cancelOrder was called, and both returned false.
C28_Witness ==
    /\ ShutdownReturned
    /\ \E c, d \in 1..Len(calls) :
          /\ calls[c].late /\ calls[c].op = "ADD" /\ ~calls[c].order.null
          /\ calls[d].late /\ calls[d].op = "CANCEL"
          /\ calls[c].ret = "false" /\ calls[d].ret = "false"

\* two callers of shutdown are inside join() on one std::thread
JoinedTwice ==
    \E s, t \in 1..Len(shutdowns) :
        /\ s # t
        /\ shutdowns[s].pc = "joining" /\ shutdowns[t].pc = "joining"
        /\ shutdowns[s].threadPtr = shutdowns[t].threadPtr

\* a caller of shutdown is about to use a std::thread that clear() destroyed
UsesReleasedThread ==
    \E s \in 1..Len(shutdowns) :
        /\ shutdowns[s].pc \in {"join", "joining"}
        /\ Dangling(shutdowns[s])

\* C29: with shutdown called a second time, after or during the first call,
\* no thread is joined twice and no call touches a released resource.
C29_ShutdownIdempotent == ~JoinedTwice /\ ~UsesReleasedThread

\* an order that fails validation: a null pointer or a non-positive quantity
InvalidOrder(order) == order.null \/ order.quantity <= 0

\* C30: a call of processOrder with an order that fails validation returns
\* false at once: it does not crash, creates nothing and pushes nothing.
C30_InvalidOrderRejected ==
    \A c \in 1..Len(calls) :
        (calls[c].op = "ADD" /\ InvalidOrder(calls[c].order)) =>
            calls[c].pc = "done" /\ calls[c].ret = "false"

\* ------------------------------------------------------------ order types
\* C31: an order of type STOP_LIMIT is never part of a fill, as the taker or
\* as the resting counterparty: its filled quantity stays 0.
C31_StopLimitNeverMatched ==
    \A h \in 1..Len(orders) :
        orders[h].type = "STOP_LIMIT" => orders[h].filledQty = 0

\* ------------------------------------------------- dispatcher resources
\* C32: every access a thread makes to the per-symbol maps is made under
\* m_mapMutex (lock 0), and no thread inside a book operation holds it.
C32_MapsAccessedUnderMapMutex ==
    \A x \in PendingAccesses : x[3].lock = 0

\* a producer is about to lock a queue mutex, push to a queue or signal a
\* condition variable that is no longer in the maps, or a worker to wait
\* on one
UsesClearedEntry ==
    \/ \E c \in 1..Len(calls) :
          \/ calls[c].pc = "push" /\ calls[c].symbol \notin m_queueMutexes
          \/ calls[c].pc = "notify" /\ calls[c].symbol \notin m_queueCondVars
    \/ \E w \in 1..Len(workers) :
          /\ workers[w].pc \in {"lock", "blocked"}
          /\ workers[w].symbol \notin m_queueMutexes

\* a caller of shutdown is about to clear the maps while they hold the
\* handle of a thread that was not joined
DestroysUnjoinedThread ==
    \E s \in 1..Len(shutdowns), symbol \in DOMAIN m_symbolThreads :
        /\ shutdowns[s].pc = "clear"
        /\ m_symbolThreads[symbol].joinable

\* C37: shutdown never destroys the handle of a worker thread it has not
\* joined, and no producer or worker uses a queue mutex, queue or condition
\* variable that shutdown has cleared from the maps.
C37_ResourcesOutliveUsers == ~DestroysUnjoinedThread /\ ~UsesClearedEntry

\* C33: fillQuantity(amount) on its own adds amount to the filled quantity
\* and leaves the order inactive when the filled quantity has reached the
\* original quantity.
C33_FillDeactivatesWhenFull ==
    \A h \in 1..Len(orders), fillAmount \in 1..MaxQty :
        LET o == fillQuantity(orders[h], fillAmount) IN
        /\ o.filledQty = orders[h].filledQty + fillAmount
        /\ o.filledQty = o.quantity => ~o.active

\* the amounts of the fillQuantity calls whose compare-exchange succeeded
FillApplied ==
    LET RECURSIVE Sum(_)
        Sum(S) == IF S = {} THEN 0
                  ELSE LET t == CHOOSE x \in S : TRUE
                       IN fillers[t].sum + Sum(S \ {t})
    IN Sum(Fillers)

\* C34: fillQuantity loses no update under concurrent writers: in every
\* interleaving of the threads' steps getFilledQty() is the initial value
\* plus the amounts of the calls that have left the compare-exchange loop,
\* so once the calls fillQuantity(a) and fillQuantity(b) have returned it
\* is the previous value plus a plus b.
C34_NoLostUpdate ==
    /\ getFilledQty = FillApplied
    /\ (\A t \in Fillers : fillers[t].pc = "idle") => getFilledQty = FillBegun

\* two calls overlapped: both are past the loop, neither has returned
C34_Witness ==
    /\ \A t \in Fillers : fillers[t].pc = "store"
    /\ getFilledQty = fillers[1].fillAmount + fillers[2].fillAmount
    /\ fillers[1].fillAmount # fillers[2].fillAmount

\* C35: a reader that observed the list of a price level after a call of
\* Limit::addOrder or Limit::removeOrder changed it reads from
\* getTotalVolume a volume that already includes that call's update,
\* never the volume from before it.
C35_VolumeFollowsList ==
    reader.pc = "done" => reader.seenUpdated >= reader.seenMutated

\* C40: BenchOrderBookManager::addOrder for a symbol without a book
\* creates the book and returns the book's result: the call is never
\* blocked on the mutex it holds itself and never leaves by an exception,
\* and when it has returned the book exists.
C40_AddOrderCompletes ==
    \A c \in 1..Len(bench_calls) :
        bench_calls[c].op = "addOrder" =>
            /\ bench_calls[c].pc \notin {"deadlocked", "thrown"}
            /\ bench_calls[c].pc = "returned" =>
                   bench_calls[c].symbol \in bench_books

\* the reads of a deleted Limit that matchOrder(order h) makes in book b
FreedLimitReads(b, h, crashAt) ==
    MatchLoop([b |-> b, rem |-> Remaining(b.orders[h]), fills |-> <<>>,
               ub |-> 0, state |-> "loop"], h, crashAt).ub

\* C36: within matchOrder, after removeOrderFromBook emptied a price level,
\* deleted its Limit and erased its map entry, the Limit is not accessed
\* again and the entry is not erased again: no call of matchOrder reads a
\* deleted Limit, and none ends in the crash of the second erase.
C36_NoAccessAfterLevelRemoved ==
    /\ status # "crashed"
    /\ Len(orders) < MaxOrders =>
          \A o \in NewOrders, c \in CrashPoints :
              irregular + Irregular(o) <= MaxIrregular =>
                  FreedLimitReads(WithNew(o), NewHandle, c) = 0

FillsPositive(r) == \A i \in 1..Len(r.fills) : r.fills[i].qty > 0

\* C38: every fill handed to the fill callback has a strictly positive
\* quantity, whatever orders addOrder accepted before: in every book
\* reached by calls of addOrder and cancelOrder, every call of addOrder,
\* with a new order or with an order object submitted before, emits only
\* fills of positive quantity.
C38_FillsPositive ==
    status = "ok" =>
        \A c \in CrashPoints :
            /\ Len(orders) < MaxOrders =>
                  \A o \in OrdersWithIds({FreshId}) :
                      FillsPositive(addOrder(WithNew(o), NewHandle, c))
            /\ \A h \in 1..Len(orders) :
                  FillsPositive(addOrder(Book, h, c))

\* the filled quantities of the orders of one side in the order table os
FilledOn(os, side) ==
    LET RECURSIVE Sum(_)
        Sum(n) == IF n = 0 THEN 0
                  ELSE (IF os[n].side = side THEN os[n].filledQty ELSE 0)
                       + Sum(n - 1)
    IN Sum(Len(os))

\* the quantities of the fills fs
FillsTotal(fs) ==
    LET RECURSIVE Sum(_)
        Sum(n) == IF n = 0 THEN 0 ELSE fs[n].qty + Sum(n - 1)
    IN Sum(Len(fs))

\* the call with result r, made on book b, added the quantity of its fills
\* to the filled quantities of either side
Conserves(b, r) ==
    /\ FilledOn(r.b.orders, "BUY") = FilledOn(b.orders, "BUY") + FillsTotal(r.fills)
    /\ FilledOn(r.b.orders, "SELL") = FilledOn(b.orders, "SELL") + FillsTotal(r.fills)

====
